---- MODULE Spec2Model ----
(***************************************************************************)
(* Model of src/compare.py: diff_pd(old_df, new_df, idx_col), the key      *)
(* based comparison of two tables, with its helpers report_diff and strip. *)
(*                                                                         *)
(* A cell value is a record [kind, s]: kind is "str" (s its characters),   *)
(* "int" (s its decimal digits), "nan" (float NaN) or "none" (None).       *)
(* A DataFrame before set_index is [columns, rows]: rows is a set of       *)
(* functions column -> value.  After set_index it is [columns, data]:      *)
(* data maps each index key (a tuple of key-column values) to the row's    *)
(* remaining cells.  Row order is not modelled: no statement checked here  *)
(* depends on it.  Key cells are never missing values.                     *)
(***************************************************************************)
EXTENDS Integers, Sequences, FiniteSets, Bags, TLC

VARIABLES args, pc, old_df, new_df, out_data

vars == <<args, pc, old_df, new_df, out_data>>

\* The largest number of rows of an input table.
MaxRows == 2

(***************************************************************************)
(* Cell values                                                             *)
(***************************************************************************)
Str(s) == [kind |-> "str", s |-> s]

Num(s) == [kind |-> "int", s |-> s]

NaN == [kind |-> "nan", s |-> <<>>]

None == [kind |-> "none", s |-> <<>>]

Range(f) == {f[i] : i \in DOMAIN f}

\* pd.isna on a scalar
isna(v) == v.kind \in {"nan", "none"}

\* Python's == on two scalars: NaN is not equal to anything, itself included
py_eq(a, b) == a.kind # "nan" /\ b.kind # "nan" /\ a = b

\* str.lstrip / str.rstrip / str.strip on a sequence of characters
RECURSIVE lstrip(_)
lstrip(s) == IF s # <<>> /\ Head(s) = " " THEN lstrip(Tail(s)) ELSE s

RECURSIVE rstrip(_)
rstrip(s) == IF s # <<>> /\ s[Len(s)] = " " THEN rstrip(SubSeq(s, 1, Len(s) - 1)) ELSE s

str_strip(s) == rstrip(lstrip(s))

\* a plausible slip: only the left side is stripped
strip_left_only(x) == IF x.kind = "str" THEN Str(lstrip(x.s)) ELSE x

\* strip(x): x.strip() if isinstance(x, str) else x
strip(x) == IF x.kind = "str" THEN Str(str_strip(x.s)) ELSE x

\* the text an f-string puts for a value: f'{v}'
format(v) ==
    CASE v.kind = "nan" -> <<"n", "a", "n">>
      [] v.kind = "none" -> <<"N", "o", "n", "e">>
      [] OTHER -> v.s

\* the literal ' ---> ' of report_diff's f-string
Arrow == <<" ", "-", "-", "-", ">", " ">>

\* a plausible slip: the two sides of the arrow exchanged
report_diff_swapped(x) ==
    IF py_eq(x[1], x[2]) \/ (isna(x[1]) /\ isna(x[2]))
    THEN x[1]
    ELSE Str(format(x[2]) \o Arrow \o format(x[1]))

\* report_diff(x): x[0] if x[0] == x[1] or pd.isna(x).all()
\*                 else f'{x[0]} ---> {x[1]}'     (x = <<old, new>>)
report_diff(x) ==
    IF py_eq(x[1], x[2]) \/ (isna(x[1]) /\ isna(x[2]))
    THEN x[1]
    ELSE Str(format(x[1]) \o Arrow \o format(x[2]))

(***************************************************************************)
(* DataFrames                                                              *)
(***************************************************************************)
EmptyFrame == [columns |-> {}, data |-> [k \in {} |-> <<>>]]

\* the index key of a row: the tuple of its key-column values
KeyOf(r, idx) == [i \in 1..Len(idx) |-> r[idx[i]]]

\* a plausible slip: a missing key column is skipped instead of raising
set_index_lenient(df, idx) ==
    LET have == SelectSeq(idx, LAMBDA c : c \in df.columns)
    IN  [raised |-> FALSE,
         frame |-> [columns |-> df.columns \ Range(have),
                    data |-> [k \in {KeyOf(r, have) : r \in df.rows} |->
                               LET r == CHOOSE q \in df.rows : KeyOf(q, have) = k
                               IN  [c \in df.columns \ Range(have) |-> r[c]]]]]

\* df.set_index(idx_col): KeyError when a key column is not a column of df,
\* else the frame indexed by the key columns, which leave the columns
set_index(df, idx) ==
    IF \E i \in 1..Len(idx) : idx[i] \notin df.columns
    THEN [raised |-> TRUE, frame |-> EmptyFrame]
    ELSE [raised |-> FALSE,
          frame |-> [columns |-> df.columns \ Range(idx),
                     data |-> [k \in {KeyOf(r, idx) : r \in df.rows} |->
                                LET r == CHOOSE q \in df.rows : KeyOf(q, idx) = k
                                IN  [c \in df.columns \ Range(idx) |-> r[c]]]]]

\* df.index
index(df) == DOMAIN df.data

\* df.loc[keys]
loc(df, keys) == [columns |-> df.columns, data |-> [k \in keys |-> df.data[k]]]

\* df.loc[keys, columns]
loc_columns(df, keys, columns) ==
    [columns |-> columns, data |-> [k \in keys |-> [c \in columns |-> df.data[k][c]]]]

\* df.applymap(strip)
applymap_strip(df) ==
    [columns |-> df.columns,
     data |-> [k \in index(df) |-> [c \in df.columns |-> strip(df.data[k][c])]]]

\* DataFrame.empty: any of the axes has length 0
empty(df) == index(df) = {} \/ df.columns = {}

\* MultiIndex.difference(other)
index_difference(a, b) == a \ b

\* np.setdiff1d(ar1, ar2)
setdiff1d(a, b) == a \ b

\* np.intersect1d(ar1, ar2, assume_unique=True)
intersect1d(a, b) == a \cap b

\* isinstance(old_keys, pd.MultiIndex): set_index with two or more columns
IsMultiIndex(idx) == Len(idx) > 1

(***************************************************************************)
(* diff_pd, lines 39-55: the added and removed rows                        *)
(***************************************************************************)
removed_keys(old, new, idx) ==
    IF IsMultiIndex(idx)
    THEN index_difference(index(old), index(new))
    ELSE setdiff1d(index(old), index(new))

added_keys(old, new, idx) ==
    IF IsMultiIndex(idx)
    THEN index_difference(index(new), index(old))
    ELSE setdiff1d(index(new), index(old))

\* one entry of the dict out_data
Entry(name, df) == [name |-> name, df |-> df]

\* a plausible slip: the test of `added` reads `removed`
populate_copy_paste(old, new, idx) ==
    LET removed == loc(old, removed_keys(old, new, idx))
        added == loc(new, added_keys(old, new, idx))
    IN  (IF ~empty(removed) THEN {Entry("removed", removed)} ELSE {})
        \cup (IF ~empty(removed) THEN {Entry("added", added)} ELSE {})

\* out_data after lines 49-55
populate(old, new, idx) ==
    LET removed == loc(old, removed_keys(old, new, idx))
        added == loc(new, added_keys(old, new, idx))
    IN  (IF ~empty(removed) THEN {Entry("removed", removed)} ELSE {})
        \cup (IF ~empty(added) THEN {Entry("added", added)} ELSE {})

(***************************************************************************)
(* diff_pd, lines 56-84: the changed rows                                  *)
(***************************************************************************)
common_keys(old, new) == intersect1d(index(old), index(new))

common_columns(old, new) == intersect1d(old.columns, new.columns)

new_common(old, new) ==
    applymap_strip(loc_columns(new, common_keys(old, new), common_columns(old, new)))

\* a plausible slip: the old side is compared as it came, unstripped
old_common_unstripped(old, new) ==
    loc_columns(old, common_keys(old, new), common_columns(old, new))

old_common(old, new) ==
    applymap_strip(loc_columns(old, common_keys(old, new), common_columns(old, new)))

\* df.reset_index(): the key becomes ordinary cells of the row
reset_index(df) == {[key |-> k, vals |-> df.data[k]] : k \in index(df)}

\* pd.concat([a, b], sort=True) of two reset frames: the rows of both, a row
\* of both counted twice
concat(a, b) == SetToBag(a) (+) SetToBag(b)

common_data(old, new) ==
    concat(reset_index(old_common(old, new)), reset_index(new_common(old, new)))

\* a plausible slip: the label of a value is the value, None and NaN apart
factorize_exact(v) == v

\* the label duplicate detection gives a cell: every missing value gets the
\* same one
factorize(v) == IF isna(v) THEN NaN ELSE v

labels(r) == [key |-> r.key, vals |-> [c \in DOMAIN r.vals |-> factorize(r.vals[c])]]

\* a plausible slip: keep='first', one row of every group of duplicates stays
drop_duplicates_keep_first(rows) ==
    {CHOOSE q \in BagToSet(rows) : labels(q) = labels(r) : r \in BagToSet(rows)}

\* rows.drop_duplicates(keep=False): the rows no other row duplicates
drop_duplicates(rows) ==
    {r \in BagToSet(rows) :
        /\ CopiesIn(r, rows) = 1
        /\ \A q \in BagToSet(rows) : q # r => labels(q) # labels(r)}

\* drop_duplicates(keep=False)[idx_col], made unique
changed_keys(old, new) == {r.key : r \in drop_duplicates(common_data(old, new))}

\* old and new side by side under every common column
df_all_changes(old, new) ==
    [columns |-> common_columns(old, new),
     data |-> [k \in changed_keys(old, new) |->
                [c \in common_columns(old, new) |->
                    <<old_common(old, new).data[k][c], new_common(old, new).data[k][c]>>]]]

\* groupby(level=0, axis=1).apply(... report_diff ...): one cell per column
df_changed(old, new) ==
    LET all == df_all_changes(old, new)
    IN  [columns |-> all.columns,
         data |-> [k \in index(all) |-> [c \in all.columns |-> report_diff(all.data[k][c])]]]

\* out_data after lines 82-84
with_changed(out, old, new) ==
    IF ~empty(df_changed(old, new))
    THEN out \cup {Entry("changed", df_changed(old, new))}
    ELSE out

\* what a call returns: raised, or the dict
diff_pd(old, new, idx) ==
    LET o == set_index(old, idx)
        n == set_index(new, idx)
    IN  IF o.raised \/ n.raised
        THEN [raised |-> TRUE, out |-> {}]
        ELSE [raised |-> FALSE,
              out |-> with_changed(populate(o.frame, n.frame, idx), o.frame, n.frame)]

(***************************************************************************)
(* The inputs of a call                                                    *)
(***************************************************************************)
\* the key specifications tried: one key column, and a composite key
IdxChoices == {<<"id">>, <<"region", "product">>}

\* the values a key column takes
KeyValues(c) ==
    CASE c = "id" -> {Num(<<"1">>), Num(<<"2">>)}
      [] c = "region" -> {Str(<<"U", "S">>), Str(<<"E", "U">>)}
      [] OTHER -> {Str(<<"W">>), Str(<<"G">>)}

\* the columns a table may have besides the key
DataColumns(idx) == IF Len(idx) = 1 THEN {"name", "note"} ELSE {"name"}

\* the values a cell of a data column takes
CellValues(idx, c) ==
    IF c = "note" THEN {Str(<<"x">>), Str(<<"y">>)}
    ELSE IF Len(idx) = 1
         THEN {Str(<<"x">>), Str(<<" ", "x", " ">>), Str(<<"y">>), NaN, None}
         ELSE {Str(<<"x">>), Str(<<"x", " ">>), NaN}

KeyTuples(idx) == {k \in [1..Len(idx) -> UNION {KeyValues(idx[i]) : i \in 1..Len(idx)}] :
                        \A i \in 1..Len(idx) : k[i] \in KeyValues(idx[i])}

KeySets(idx, n) == {ks \in SUBSET KeyTuples(idx) : Cardinality(ks) <= n}

Position(idx, c) == CHOOSE i \in 1..Len(idx) : idx[i] = c

\* the table whose rows have the keys of d, a function key -> cells
Table(idx, cols, d) ==
    [columns |-> Range(idx) \cup cols,
     rows |-> {[c \in Range(idx) \cup cols |->
                    IF c \in cols THEN d[k][c] ELSE k[Position(idx, c)]] : k \in DOMAIN d}]

Cells(idx, cols) == {f \in [cols -> UNION {CellValues(idx, c) : c \in cols}] :
                        \A c \in cols : f[c] \in CellValues(idx, c)}

\* every table of at most n rows whose key is idx, unique, with data columns cols
Tables(idx, cols, n) ==
    {Table(idx, cols, d) : d \in UNION {[ks -> Cells(idx, cols)] : ks \in KeySets(idx, n)}}

\* a table that lost some of its columns
WithoutColumns(t, gone) ==
    [columns |-> t.columns \ gone,
     rows |-> {[c \in t.columns \ gone |-> r[c]] : r \in t.rows}]

\* a call whose tables both have every key column
GoodCall(a) ==
    \E idx \in IdxChoices :
        \E ocols \in SUBSET DataColumns(idx), ncols \in SUBSET DataColumns(idx) :
            \E o \in Tables(idx, ocols, MaxRows), n \in Tables(idx, ncols, MaxRows) :
                a = [old_df |-> o, new_df |-> n, idx_col |-> idx]

\* a call one or both of whose tables lack a key column
KeylessCall(a) ==
    \E idx \in IdxChoices :
        \E ocols \in SUBSET {"name"}, ncols \in SUBSET {"name"} :
            \E o \in Tables(idx, ocols, 1), n \in Tables(idx, ncols, 1) :
                \E ogone \in SUBSET Range(idx), ngone \in SUBSET Range(idx) :
                    /\ ogone \cup ngone # {}
                    /\ a = [old_df |-> WithoutColumns(o, ogone),
                            new_df |-> WithoutColumns(n, ngone),
                            idx_col |-> idx]

(***************************************************************************)
(* A call of diff_pd, step by step                                         *)
(***************************************************************************)
Init ==
    /\ GoodCall(args) \/ KeylessCall(args)
    /\ pc = "set_index"
    /\ old_df = args.old_df
    /\ new_df = args.new_df
    /\ out_data = {}

\* lines 37-38, a key column missing: KeyError leaves the function
SetIndexRaises ==
    /\ pc = "set_index"
    /\ set_index(old_df, args.idx_col).raised \/ set_index(new_df, args.idx_col).raised
    /\ pc' = "raised"
    /\ UNCHANGED <<args, old_df, new_df, out_data>>

\* lines 37-38: both frames re-indexed by the key
SetIndex ==
    /\ pc = "set_index"
    /\ ~set_index(old_df, args.idx_col).raised
    /\ ~set_index(new_df, args.idx_col).raised
    /\ old_df' = set_index(old_df, args.idx_col).frame
    /\ new_df' = set_index(new_df, args.idx_col).frame
    /\ pc' = "added_removed"
    /\ UNCHANGED <<args, out_data>>

\* lines 39-55: out_data gets the removed and the added rows
AddedRemoved ==
    /\ pc = "added_removed"
    /\ out_data' = populate(old_df, new_df, args.idx_col)
    /\ pc' = "changed"
    /\ UNCHANGED <<args, old_df, new_df>>

\* lines 56-86: out_data gets the changed rows and is returned
Changed ==
    /\ pc = "changed"
    /\ out_data' = with_changed(out_data, old_df, new_df)
    /\ pc' = "return"
    /\ UNCHANGED <<args, old_df, new_df>>

Next == SetIndexRaises \/ SetIndex \/ AddedRemoved \/ Changed

Spec == Init /\ [][Next]_vars

(***************************************************************************)
(* What the statements below speak of, read off the arguments of the call  *)
(* and the returned dict                                                   *)
(***************************************************************************)
Returned == pc = "return"

\* the keys of an input table
InputKeys(df) == {KeyOf(r, args.idx_col) : r \in df.rows}

OldKeys == InputKeys(args.old_df)

NewKeys == InputKeys(args.new_df)

\* the cell of the input row with key k under column c
InputCell(df, k, c) == (CHOOSE r \in df.rows : KeyOf(r, args.idx_col) = k)[c]

\* the columns of both input tables, the key columns apart
SharedColumns == (args.old_df.columns \cap args.new_df.columns) \ Range(args.idx_col)

Has(out, name) == \E e \in out : e.name = name

\* the keys of the table out holds under name; none when it holds no such table
Keys(out, name) == UNION {index(e.df) : e \in {x \in out : x.name = name}}

\* the cell of the table `changed` of out
ChangedCell(out, k, c) == (CHOOSE e \in out : e.name = "changed").df.data[k][c]

\* a text without its leading and trailing blanks
Trimmed(s) ==
    LET inked == {i \in 1..Len(s) : s[i] # " "}
    IN  IF inked = {} THEN <<>>
        ELSE SubSeq(s, CHOOSE i \in inked : \A j \in inked : i <= j,
                       CHOOSE i \in inked : \A j \in inked : i >= j)

\* a value normalized: a text trimmed, anything else as it is
Normalized(v) == IF v.kind = "str" THEN Str(Trimmed(v.s)) ELSE v

\* equality of two cells for change detection: identical, or both missing
SameValue(a, b) == a = b \/ (isna(a) /\ isna(b))

\* two cells equal except for leading and trailing blanks of texts
WhitespaceApart(a, b) ==
    a = b \/ (a.kind = "str" /\ b.kind = "str" /\ Trimmed(a.s) = Trimmed(b.s))

\* the text "<a> ---> <b>"
Rendered(a, b) == Str(format(a) \o Arrow \o format(b))

\* a key column is absent from the old or from the new table
KeyColumnMissing ==
    \E i \in 1..Len(args.idx_col) :
        args.idx_col[i] \notin args.old_df.columns \/ args.idx_col[i] \notin args.new_df.columns

\* the keys of both tables whose rows differ in a shared column, normalized
GenuinelyChanged ==
    {k \in OldKeys \cap NewKeys :
        \E c \in SharedColumns :
            ~SameValue(Normalized(InputCell(args.old_df, k, c)),
                       Normalized(InputCell(args.new_df, k, c)))}

(***************************************************************************)
(* C1.  The keys of `removed` are exactly the keys of old absent from new, *)
(* and the keys of `added` exactly the keys of new absent from old, keys   *)
(* compared as whole tuples of key-column values.                          *)
(***************************************************************************)
C1_KeysBySetDifference ==
    Returned =>
        /\ Keys(out_data, "removed") = OldKeys \ NewKeys
        /\ Keys(out_data, "added") = NewKeys \ OldKeys

(***************************************************************************)
(* C2.  A key is in `changed` if and only if it is in both tables and some *)
(* column of both tables has normalized old and new values that are not    *)
(* equal; a column of one table only never puts a row in `changed`.        *)
(***************************************************************************)
C2_ChangedIffSharedColumnDiffers ==
    Returned => Keys(out_data, "changed") = GenuinelyChanged

C2_Witness ==
    /\ Returned
    /\ Keys(out_data, "changed") # {}
    /\ (OldKeys \cap NewKeys) \ Keys(out_data, "changed") # {}
    /\ args.old_df.columns \ args.new_df.columns # {}

(***************************************************************************)
(* C3.  The key sets of `removed`, `added` and `changed` are pairwise      *)
(* disjoint, and their union is (old keys union new keys) minus the keys   *)
(* whose rows are identical in both tables on the shared columns.          *)
(***************************************************************************)
C3_DisjointAndCovering ==
    Returned =>
        /\ Keys(out_data, "removed") \cap Keys(out_data, "added") = {}
        /\ Keys(out_data, "removed") \cap Keys(out_data, "changed") = {}
        /\ Keys(out_data, "added") \cap Keys(out_data, "changed") = {}
        /\ Keys(out_data, "removed") \cup Keys(out_data, "added") \cup Keys(out_data, "changed")
             = (OldKeys \cup NewKeys)
                 \ {k \in OldKeys \cap NewKeys :
                       \A c \in SharedColumns :
                           InputCell(args.old_df, k, c) = InputCell(args.new_df, k, c)}

C5_KeyColumnMissingFails ==
    KeyColumnMissing => /\ pc \in {"set_index", "raised"}
                        /\ out_data = {}
                        /\ pc = "set_index" => ENABLED SetIndexRaises /\ ~ENABLED SetIndex

C5_Witness ==
    /\ pc = "raised"
    /\ \A i \in 1..Len(args.idx_col) : args.idx_col[i] \in args.old_df.columns
    /\ args.new_df.rows # {}

(***************************************************************************)
(* C6.  An entry is absent from the returned dict exactly when its table   *)
(* has no rows: `removed` is present iff some old key is absent from new,  *)
(* `added` iff some new key is absent from old, also for tables whose only *)
(* columns are the key columns.                                            *)
(***************************************************************************)
C6_PresentIffRows ==
    Returned =>
        /\ Has(out_data, "removed") <=> OldKeys \ NewKeys # {}
        /\ Has(out_data, "added") <=> NewKeys \ OldKeys # {}
        /\ Has(out_data, "changed") <=> Keys(out_data, "changed") # {}

(***************************************************************************)
(* C7.  A key of both tables whose shared cells are equal except for       *)
(* leading or trailing whitespace of texts is not in `changed`; two tables *)
(* that are otherwise identical give the empty dict.                       *)
(***************************************************************************)
IdenticalButWhitespace ==
    /\ args.old_df.columns = args.new_df.columns
    /\ OldKeys = NewKeys
    /\ \A k \in OldKeys : \A c \in SharedColumns :
           WhitespaceApart(InputCell(args.old_df, k, c), InputCell(args.new_df, k, c))

C7_WhitespaceIsNoChange ==
    Returned =>
        /\ \A k \in OldKeys \cap NewKeys :
               (\A c \in SharedColumns :
                    WhitespaceApart(InputCell(args.old_df, k, c), InputCell(args.new_df, k, c)))
               => k \notin Keys(out_data, "changed")
        /\ IdenticalButWhitespace => out_data = {}

C7_Witness ==
    /\ Returned
    /\ IdenticalButWhitespace
    /\ \E k \in OldKeys : \E c \in SharedColumns :
           InputCell(args.old_df, k, c) # InputCell(args.new_df, k, c)
    /\ out_data = {}

(***************************************************************************)
(* C8.  A key of both tables one of whose shared cells is missing on both  *)
(* sides in two different encodings, all other shared cells equal, is not  *)
(* in `changed`.                                                           *)
(***************************************************************************)
MissingInTwoEncodings(k) ==
    /\ \A c \in SharedColumns :
           SameValue(InputCell(args.old_df, k, c), InputCell(args.new_df, k, c))
    /\ \E c \in SharedColumns :
           /\ isna(InputCell(args.old_df, k, c))
           /\ isna(InputCell(args.new_df, k, c))
           /\ InputCell(args.old_df, k, c) # InputCell(args.new_df, k, c)

C8_MissingEncodingsAreEqual ==
    Returned =>
        \A k \in OldKeys \cap NewKeys :
            MissingInTwoEncodings(k) => k \notin Keys(out_data, "changed")

C8_Witness ==
    /\ Returned
    /\ \E k \in OldKeys \cap NewKeys : MissingInTwoEncodings(k)
    /\ Has(out_data, "changed")

(***************************************************************************)
(* C9.  A table compared with itself gives the empty dict: no removed, no  *)
(* added, no changed, also when it has no rows or has missing cells.       *)
(***************************************************************************)
C9_SameTableNoDifference ==
    (Returned /\ args.old_df = args.new_df) => out_data = {}

C9_Witness ==
    /\ Returned
    /\ args.old_df = args.new_df
    /\ \E r \in args.old_df.rows : \E c \in DOMAIN r : isna(r[c])
    /\ out_data = {}

(***************************************************************************)
(* C10.  Swapping the inputs swaps the classes: removed of (A,B) has the   *)
(* keys of added of (B,A), added of (A,B) the keys of removed of (B,A),    *)
(* changed has the same keys both ways, and in every rendered cell         *)
(* "l ---> r" of one direction the other direction holds "r ---> l".       *)
(***************************************************************************)
Texts(k, c) ==
    {format(v) : v \in {InputCell(args.old_df, k, c), InputCell(args.new_df, k, c),
                        Normalized(InputCell(args.old_df, k, c)),
                        Normalized(InputCell(args.new_df, k, c))}}

C10_SwapSymmetry ==
    Returned =>
        LET back == diff_pd(args.new_df, args.old_df, args.idx_col).out
        IN  /\ Keys(out_data, "removed") = Keys(back, "added")
            /\ Keys(out_data, "added") = Keys(back, "removed")
            /\ Keys(out_data, "changed") = Keys(back, "changed")
            /\ \A k \in Keys(out_data, "changed") : \A c \in SharedColumns :
                   LET o == Normalized(InputCell(args.old_df, k, c))
                       n == Normalized(InputCell(args.new_df, k, c))
                   IN  IF SameValue(o, n)
                       THEN /\ ChangedCell(out_data, k, c) \in {o, n}
                            /\ ChangedCell(back, k, c) \in {o, n}
                       ELSE \E l \in Texts(k, c), r \in Texts(k, c) :
                               /\ ChangedCell(out_data, k, c) = Str(l \o Arrow \o r)
                               /\ ChangedCell(back, k, c) = Str(r \o Arrow \o l)

C10_Witness ==
    /\ Returned
    /\ Has(out_data, "removed")
    /\ Has(out_data, "added")
    /\ Has(out_data, "changed")

====
